---------------------------- MODULE Spec2Model ----------------------------
(***************************************************************************)
(* Cognitive Echo Sentinel: the lexical-cognition reliability wrapper      *)
(* (services/lexical_analyzer.py, services/risk_engine.py) and the         *)
(* /api/analyze request handler (main.py, services/audio_features.py),     *)
(* and, called on their own, extract_features and the scoring functions    *)
(* of services/risk_engine.py.                                             *)
(*                                                                         *)
(* Units.  Lexical scores (0..1) are kept in hundredths, risk scores       *)
(* (0..100) in tenths of a point, confidence (0..1) in hundredths.         *)
(* A Python dict is a function whose DOMAIN is the set of its keys, an     *)
(* Optional value is <<>> (None) or <<x>>.                                 *)
(***************************************************************************)
EXTENDS Integers, Sequences, FiniteSets, TLC

VARIABLES
    entry,          \* which public coroutine this run exercises
    librosaAvail,   \* audio_features.LIBROSA_AVAILABLE (import-time probe)
    praatAvail,     \* audio_features.PRAAT_AVAILABLE   (import-time probe)
    mlReady,        \* risk_engine._ml_ready            (import-time load)
    apiKeySet,      \* FEATHERLESS_API_KEY present in the environment
    upload,         \* the UploadFile handed to analyze_audio
    anPc,           \* position of analyze_audio
    steps,          \* pipeline steps analyze_audio has run, in order
    tmpFiles,       \* temporary files left on disk by _extract_real
    features,       \* Optional: the feature record of the request
    acousticRisk,   \* Optional: compute_acoustic_risk's value (tenths)
    lexical,        \* Optional: lexical_analysis_placeholder's record
    httpStatus,     \* status code of the finished request, 0 while running
    response,       \* Optional: the AnalysisResponse
    transcript,     \* argument of run_lexical_analysis
    lexPc,          \* position of run_lexical_analysis
    attempt,        \* loop variable of the retry loop
    events,         \* network calls and backoff sleeps, in order
    keyRead,        \* os.getenv("FEATHERLESS_API_KEY") was evaluated
    lastAnswer,     \* Optional: the provider answer of the last call
    lexResult,      \* the dict run_lexical_analysis returned (<<>> before)
    extraction,     \* extract_features called on its own: calls and modes
    scoring,        \* a scoring function of risk_engine called on its own
    loop            \* the requests in flight on the server's event loop

vars == <<entry, librosaAvail, praatAvail, mlReady, apiKeySet, upload, anPc,
          steps, tmpFiles, features, acousticRisk, lexical, httpStatus,
          response, transcript, lexPc, attempt, events, keyRead, lastAnswer,
          lexResult, extraction, scoring, loop>>

anVars == <<upload, anPc, steps, tmpFiles, features, acousticRisk, lexical,
            httpStatus, response>>

lexVars == <<transcript, lexPc, attempt, events, keyRead, lastAnswer,
             lexResult>>

procVars == <<entry, librosaAvail, praatAvail, mlReady, apiKeySet>>

unitVars == <<extraction, scoring, loop>>

None == <<>>
Some(x) == <<x>>

\* the two unit-call variables while no unit call is made
NoExtraction == [calls |-> 0, last |-> None, modes |-> {}]
NoScoring == [fn |-> "none", arg |-> None, out |-> None]
NoLoop == [ticks |-> 0, req |-> <<>>]

-----------------------------------------------------------------------------
(* Program constants                                                       *)

MAX_RETRIES == 2
BASE_BACKOFF_SECONDS == 1
MIN_TRANSCRIPT_CHARS == 10
MIN_AUDIO_BYTES == 100
MAX_SCORE == 1000          \* hi = 100.0 of _clamp, in tenths of a point

(* Bounds of the model                                                     *)

MaxPad == 1            \* leading / trailing blanks of a sampled transcript
MaxCore == 11          \* non-blank characters of a sampled transcript

-----------------------------------------------------------------------------
(* Strings as sequences of characters: str.strip()                         *)

IsSpace(c) == c \in {" ", "\t", "\n"}

RECURSIVE LStrip(_)
LStrip(s) == IF s = <<>> THEN s
             ELSE IF IsSpace(Head(s)) THEN LStrip(Tail(s)) ELSE s

RECURSIVE RStrip(_)
RStrip(s) == IF s = <<>> THEN s
             ELSE IF IsSpace(s[Len(s)]) THEN RStrip(SubSeq(s, 1, Len(s) - 1))
             ELSE s

Strip(s) == RStrip(LStrip(s))

Repeat(c, n) == [i \in 1..n |-> c]

Transcripts ==
    { Repeat(" ", l) \o Repeat("a", n) \o Repeat(" ", r) :
        l \in 0..MaxPad, n \in 0..MaxCore, r \in 0..MaxPad }

PlaceholderSpaces == {5, 8, 10, 22, 33, 37, 51}

transcript_placeholder ==
    [i \in 1..60 |-> IF i \in PlaceholderSpaces THEN " " ELSE "a"]

-----------------------------------------------------------------------------
(* JSON / Python values: t is the Python type, n the numeric value in      *)
(* hundredths (True is 1, False is 0), s the text of a str.                *)

JInt(k) == [t |-> "int", n |-> 100 * k, s |-> ""]
JFloat(h) == [t |-> "float", n |-> h, s |-> ""]
JBool(b) == [t |-> "bool", n |-> IF b THEN 100 ELSE 0, s |-> ""]
JStr(x) == [t |-> "str", n |-> 0, s |-> x]
JNull == [t |-> "NoneType", n |-> 0, s |-> ""]

ScoreKeys == <<"vocabulary_richness", "sentence_coherence",
               "word_finding_difficulty", "repetition_tendency">>

ScoreKeySet == {ScoreKeys[i] : i \in 1..Len(ScoreKeys)}

Min2(a, b) == IF a < b THEN a ELSE b
Max2(a, b) == IF a > b THEN a ELSE b

-----------------------------------------------------------------------------
(* Exceptions                                                              *)

Exc(type, msg) == [type |-> type, msg |-> msg]
NoExc == Exc("", "")
Raised(e) == [exc |-> e, value |-> <<>>]
Returned(v) == [exc |-> NoExc, value |-> v]

-----------------------------------------------------------------------------
(* The LLM provider: what one POST to FEATHERLESS_API_URL can come back    *)
(* with.  kind is the transport outcome; for an HTTP answer, envelope is   *)
(* the shape of the response body, fence the markdown wrapping of the      *)
(* completion text, payload what the text holds and body the JSON object.  *)

AllKeys == ScoreKeySet \cup {"cognitive_concern"}

BaseBody ==
    [k \in AllKeys |->
        IF k = "cognitive_concern" THEN JStr("Medium") ELSE JFloat(50)]

\* what a score field may hold instead of an in-range float
ScoreDeviations ==
    { JInt(1), JInt(2), JFloat(150), JFloat(-50), JBool(TRUE), JStr("0.5"),
      JNull }

\* what cognitive_concern may hold instead of "Medium"
ConcernDeviations ==
    { JStr("Low"), JStr("High"), JStr("Severe"), JInt(1) }

Without(d, k) == [x \in DOMAIN d \ {k} |-> d[x]]

\* the answers that differ from BaseBody in the field k
Deviate(b, k) ==
    {Without(b, k)} \cup
    { [b EXCEPT ![k] = v] :
        v \in IF k = "cognitive_concern" THEN ConcernDeviations
              ELSE ScoreDeviations }

\* sampled JSON objects: the well-formed one, every one-field deviation of
\* it, the empty object and one with two fields off
Bodies ==
    {BaseBody}
    \cup UNION { Deviate(BaseBody, k) : k \in AllKeys }
    \cup { <<>>,
           [BaseBody EXCEPT !["sentence_coherence"] = JStr("high"),
                            !["cognitive_concern"] = JStr("Severe")] }

Answer(kind, status, envelope, fence, payload, body) ==
    [kind |-> kind, status |-> status, envelope |-> envelope,
     fence |-> fence, payload |-> payload, body |-> body]

TransientStatuses == {500}
AuthStatuses == {401, 403}

ProviderAnswers ==
    { Answer(k, 0, "", "", "", <<>>) : k \in {"timeout", "network_error"} }
    \cup { Answer("http", st, "", "", "", <<>>) :
             st \in TransientStatuses \cup AuthStatuses }
    \cup { Answer("http", 200, e, "", "", <<>>) :
             e \in {"not_json", "no_choices", "content_null"} }
    \cup { Answer("http", 200, "ok", "none", p, <<>>) :
             p \in {"not_json", "array"} }
    \cup { Answer("http", 200, "ok", f, "object", BaseBody) :
             f \in {"fenced", "fence_inline"} }
    \cup { Answer("http", 200, "ok", "none", "object", b) :
             b \in Bodies }

-----------------------------------------------------------------------------
(* lexical_analyzer.py                                                     *)

\* variant: the length is taken before the blanks are stripped
TooShortUnstripped(t) == Len(t) < MIN_TRANSCRIPT_CHARS

\* transcript validation at the head of analyze_lexical_cognition
IsBlank(t) == Len(t) = 0 \/ Len(Strip(t)) = 0

\* `if transcript_len < 10`
TooShort(t) == Len(Strip(t)) < MIN_TRANSCRIPT_CHARS

ValidateTranscript(t) ==
    IF IsBlank(t)
    THEN Raised(Exc("ValueError", "Transcript must be a non-empty string."))
    ELSE IF TooShort(t)
    THEN Raised(Exc("ValueError",
             "Transcript must be at least 10 characters for lexical analysis."))
    ELSE Returned(Strip(t))

\* variant: only 401 is taken for an authentication failure
IsUnauthorizedOnly(ans) == ans.kind = "http" /\ ans.status = 401

\* `if response.status_code in (401, 403)`
IsAuthFailure(ans) == ans.kind = "http" /\ ans.status \in {401, 403}

\* response.raise_for_status() passes
IsHttpSuccess(ans) == ans.kind = "http" /\ ans.status \in 200..299

\* variant: a backoff sleep follows every failed attempt, the last included
BackoffAfterEveryFailure(a) == a <= MAX_RETRIES + 1

\* `if attempt <= MAX_RETRIES` after a caught transport error
ShouldBackoff(a) == a <= MAX_RETRIES

\* range(1, MAX_RETRIES + 2) has a next value after a
HasNextAttempt(a) == a + 1 < MAX_RETRIES + 2

RECURSIVE Pow2(_)
Pow2(n) == IF n = 0 THEN 1 ELSE 2 * Pow2(n - 1)

\* variant: the delay does not grow with the attempt
FlatBackoff(a) == BASE_BACKOFF_SECONDS

\* BASE_BACKOFF_SECONDS * (2 ** (attempt - 1))
BackoffSeconds(a) == BASE_BACKOFF_SECONDS * Pow2(a - 1)

\* variant: the wrapper goes on without a credential
CredentialNeverMissing(keySet) == FALSE

\* `if not api_key` after os.getenv("FEATHERLESS_API_KEY")
CredentialMissing(keySet) == ~keySet

ExhaustedError ==
    Exc("RuntimeError", "Featherless API unreachable after 3 attempts.")

AuthError ==
    Exc("RuntimeError", "Invalid or unauthorized Featherless API Key")

MissingKeyError ==
    Exc("RuntimeError", "Featherless API key is not configured.")

\* response.json() and api_response["choices"][0]["message"]["content"].strip()
ExtractContent(ans) ==
    IF ans.envelope \in {"not_json", "no_choices"}
    THEN Raised(Exc("RuntimeError",
             "Featherless API returned an unexpected response format."))
    ELSE IF ans.envelope = "content_null"
    THEN Raised(Exc("AttributeError", "'NoneType' object has no attribute 'strip'"))
    ELSE Returned([fence |-> ans.fence, payload |-> ans.payload,
                   body |-> ans.body])

\* _parse_llm_json: an opening fence with no newline after it takes the
\* first character of the text with it
ParseLlmJson(content) ==
    LET payload == IF content.fence = "fence_inline" THEN "not_json"
                   ELSE content.payload
    IN  IF payload = "not_json"
        THEN Raised(Exc("RuntimeError",
                 "Featherless AI did not return valid JSON."))
        ELSE IF payload = "array"
        THEN Raised(Exc("RuntimeError",
                 "Expected a JSON object from Featherless AI."))
        ELSE Returned(content.body)

REQUIRED_KEYS == ScoreKeys \o <<"cognitive_concern">>

ExpectedType(key) == IF key = "cognitive_concern" THEN "str" ELSE "float"

VALID_CONCERNS == {"Low", "Medium", "High"}

\* isinstance(value, (int, float)): bool is a subclass of int
IsInstanceNumber(v) == v.t \in {"int", "float", "bool"}

\* isinstance(value, expected_type)
IsInstance(v, type) == v.t = type

ToFloat(v) == JFloat(v.n)

\* the key loop of _validate_result, in dict order
RECURSIVE CheckKeys(_, _)
CheckKeys(result, keys) ==
    IF keys = <<>> THEN Returned(result)
    ELSE LET key == Head(keys)
         IN  IF key \notin DOMAIN result
             THEN Raised(Exc("RuntimeError",
                      "Featherless AI response is missing required key."))
             ELSE IF ExpectedType(key) = "float" /\ IsInstanceNumber(result[key])
             THEN CheckKeys([result EXCEPT ![key] = ToFloat(result[key])],
                            Tail(keys))
             ELSE IF ~IsInstance(result[key], ExpectedType(key))
             THEN Raised(Exc("RuntimeError", "Key has invalid type."))
             ELSE CheckKeys(result, Tail(keys))

\* max(0.0, min(1.0, x))
ClampUnit(v) == JFloat(Max2(0, Min2(100, v.n)))

ClampScores(result) ==
    [k \in DOMAIN result |->
        IF k \in ScoreKeySet THEN ClampUnit(result[k]) ELSE result[k]]

ValidateResult(result) ==
    LET checked == CheckKeys(result, REQUIRED_KEYS)
    IN  IF checked.exc # NoExc THEN checked
        ELSE IF checked.value["cognitive_concern"].s \notin VALID_CONCERNS
        THEN Raised(Exc("RuntimeError",
                 "'cognitive_concern' must be one of Low, Medium, High."))
        ELSE Returned(ClampScores(checked.value))

\* analyze_lexical_cognition from line 149 on: the loop was left by `break`
HandleCompletion(ans) ==
    LET content == ExtractContent(ans)
    IN  IF content.exc # NoExc THEN content
        ELSE LET parsed == ParseLlmJson(content.value)
             IN  IF parsed.exc # NoExc THEN parsed
                 ELSE ValidateResult(parsed.value)

-----------------------------------------------------------------------------
(* risk_engine.py: run_lexical_analysis                                    *)

UnavailableRecord(errorType, message) ==
    [k \in {"status", "error_type", "message"} |->
        CASE k = "status" -> JStr("unavailable")
          [] k = "error_type" -> JStr(errorType)
          [] OTHER -> JStr(message)]

EmptyTranscriptResult ==
    UnavailableRecord("empty_transcript",
                      "No transcript available for lexical analysis.")

\* metrics["status"] = "success"
SuccessRecord(metrics) ==
    [k \in DOMAIN metrics \cup {"status"} |->
        IF k = "status" THEN JStr("success") ELSE metrics[k]]

\* variant: a failed call is answered with neutral default scores
FabricatingResult(e) ==
    IF e.type = "RuntimeError"
    THEN [k \in {"status", "error_type", "message"} \cup AllKeys |->
            CASE k = "status" -> JStr("unavailable")
              [] k = "error_type" -> JStr("api_failure")
              [] k = "message" -> JStr(e.msg)
              [] k = "cognitive_concern" -> JStr("Low")
              [] OTHER -> JFloat(50)]
    ELSE UnavailableRecord("input_validation", e.msg)

\* variant: no catch-all clause after ValueError and RuntimeError
CatchesListedOnly(e) == e.type \in {"ValueError", "RuntimeError"}

\* Exception and its subclasses: what `except Exception` catches
ExceptionTypes == {"ValueError", "RuntimeError", "AttributeError", "Exception"}

\* the except clauses of run_lexical_analysis, the last one a catch-all
Catches(e) == e.type \in ExceptionTypes

ResultOfException(e) ==
    CASE e.type = "ValueError" ->
           UnavailableRecord("input_validation", e.msg)
      [] e.type = "RuntimeError" ->
           UnavailableRecord("api_failure", e.msg)
      [] OTHER ->
           UnavailableRecord("unexpected_error",
               "An unexpected error occurred during lexical analysis.")

\* what run_lexical_analysis hands back for an outcome of
\* analyze_lexical_cognition
ResultOf(outcome) ==
    IF outcome.exc # NoExc THEN ResultOfException(outcome.exc)
    ELSE SuccessRecord(outcome.value)

\* the log of what the wrapper did on the network and on the clock
CallEvent(ans) ==
    [ev |-> "call", secs |-> 0, kind |-> ans.kind, status |-> ans.status]
SleepEvent(secs) ==
    [ev |-> "sleep", secs |-> secs, kind |-> "", status |-> 0]

\* variant: only the empty string counts as no transcript
NoTranscriptUnstripped(t) == Len(t) = 0

\* `if not transcript or not transcript.strip()` of run_lexical_analysis
NoTranscript(t) == Len(t) = 0 \/ Len(Strip(t)) = 0

\* run_lexical_analysis ends: it returns a dict, or an exception no except
\* clause catches leaves it
LexReturn(outcome) ==
    IF outcome.exc # NoExc /\ ~Catches(outcome.exc)
    THEN /\ lexPc' = "raised"
         /\ UNCHANGED lexResult
    ELSE /\ lexResult' = ResultOf(outcome)
         /\ lexPc' = "returned"

\* run_lexical_analysis up to its first suspension: the empty check, then
\* analyze_lexical_cognition's validation and credential lookup
LexBegin ==
    /\ lexPc = "called"
    /\ IF NoTranscript(transcript)
       THEN /\ lexResult' = EmptyTranscriptResult
            /\ lexPc' = "returned"
            /\ UNCHANGED <<attempt, keyRead>>
       ELSE LET valid == ValidateTranscript(transcript)
            IN  IF valid.exc # NoExc
                THEN /\ LexReturn(valid)
                     /\ UNCHANGED <<attempt, keyRead>>
                ELSE /\ keyRead' = TRUE
                     /\ IF CredentialMissing(apiKeySet)
                        THEN /\ LexReturn(Raised(MissingKeyError))
                             /\ UNCHANGED attempt
                        ELSE /\ attempt' = 1
                             /\ lexPc' = "attempt"
                             /\ UNCHANGED lexResult
    /\ UNCHANGED <<transcript, events, lastAnswer>>
    /\ UNCHANGED <<procVars, anVars, unitVars>>

\* the for statement takes its next value, or runs its else clause
LoopAdvance(a) ==
    IF HasNextAttempt(a)
    THEN /\ attempt' = a + 1
         /\ lexPc' = "attempt"
         /\ UNCHANGED lexResult
    ELSE /\ LexReturn(Raised(ExhaustedError))
         /\ UNCHANGED attempt

\* one pass of the retry loop: the POST, and what follows its answer up to
\* the next suspension (the backoff sleep) or the return
LexAttempt ==
    /\ lexPc = "attempt"
    /\ \E ans \in ProviderAnswers :
         /\ lastAnswer' = Some(ans)
         /\ IF IsAuthFailure(ans)
            THEN /\ events' = Append(events, CallEvent(ans))
                 /\ LexReturn(Raised(AuthError))
                 /\ UNCHANGED attempt
            ELSE IF IsHttpSuccess(ans)
            THEN /\ events' = Append(events, CallEvent(ans))
                 /\ LexReturn(HandleCompletion(ans))
                 /\ UNCHANGED attempt
            ELSE IF ShouldBackoff(attempt)
            THEN /\ events' = events \o <<CallEvent(ans),
                                          SleepEvent(BackoffSeconds(attempt))>>
                 /\ lexPc' = "backoff"
                 /\ UNCHANGED <<attempt, lexResult>>
            ELSE /\ events' = Append(events, CallEvent(ans))
                 /\ LoopAdvance(attempt)
    /\ UNCHANGED <<transcript, keyRead>>
    /\ UNCHANGED <<procVars, anVars, unitVars>>

\* asyncio.sleep(backoff) ends and the loop goes on
LexWake ==
    /\ lexPc = "backoff"
    /\ LoopAdvance(attempt)
    /\ UNCHANGED <<transcript, events, keyRead, lastAnswer>>
    /\ UNCHANGED <<procVars, anVars, unitVars>>

-----------------------------------------------------------------------------
(* audio_features.py: extract_features.  What the collaborators of one     *)
(* extraction do is the record env: the transcoder (ffmpeg), the decoder   *)
(* (librosa.load), the spectral/pitch routines run on the decoded samples  *)
(* and the voice-quality toolkit (parselmouth).                            *)

ExtractionEnvs ==
    [transcode : {"ok", "exit_error", "exit_error_partial", "crash"},
     decode : {"ok", "fail"},
     spectral : {"ok", "raise"},
     toolkit : {"ok", "raise"}]

\* Sampled sessions: what the measurements and the random draws of one
\* request come to.  jitter_percent, pitch_stability and deviation in
\* hundredths, heuristic and blended acoustic risk and coherence in tenths.
SessionSamples ==
    { [jitter_percent |-> 150, pitch_stability |-> 80, deviation |-> 1000,
       heuristic |-> 200, blended |-> 250, coherence |-> 800],
      [jitter_percent |-> 250, pitch_stability |-> 50, deviation |-> 5000,
       heuristic |-> 800, blended |-> 700, coherence |-> 800],
      [jitter_percent |-> 150, pitch_stability |-> 80, deviation |-> 3000,
       heuristic |-> 450, blended |-> 450, coherence |-> 600] }

FeatureRecord(mode, loaded, js, sample) ==
    [mode |-> mode, loaded |-> loaded, js |-> js,
     jitter_percent |-> sample.jitter_percent,
     pitch_stability |-> sample.pitch_stability]

\* _extract_mock
ExtractMock(sample) == FeatureRecord("mock", "none", "mock", sample)

\* variant: the output path is returned whether or not ffmpeg succeeded
ConvertAlwaysWav(env) ==
    CASE env.transcode \in {"ok", "exit_error_partial"} ->
           [path |-> "wav", files |-> {"webm", "wav"}]
      [] OTHER ->
           [path |-> "wav", files |-> {"webm"}]

\* convert_webm_to_wav: the path it returns and the files on disk after it
ConvertWebmToWav(env) ==
    CASE env.transcode = "ok" ->
           [path |-> "wav", files |-> {"webm", "wav"}]
      [] env.transcode = "exit_error_partial" ->
           [path |-> "webm", files |-> {"webm", "wav"}]
      [] OTHER ->
           [path |-> "webm", files |-> {"webm"}]

\* the finally clause of _extract_real
Cleanup(converted) ==
    (converted.files \ {"webm"})
        \ (IF converted.path # "webm" THEN {"wav"} ELSE {})

\* _compute_jitter_shimmer
JitterShimmerSource(praat, env) ==
    IF ~praat THEN "mock"
    ELSE IF env.toolkit = "raise" THEN "mock" ELSE "praat"

\* _extract_real: [exc, value, files, trace]; trace is what the call did,
\* in order, a decode with the path librosa.load was given
ExtractReal(praat, env, sample) ==
    LET converted == ConvertWebmToWav(env)
        left == Cleanup(converted)
        began == <<[op |-> "transcode", path |-> "webm"],
                   [op |-> "decode", path |-> converted.path]>>
    IN  IF env.decode = "fail"
        THEN [exc |-> NoExc, value |-> ExtractMock(sample), files |-> left,
              trace |-> Append(began, [op |-> "extract_mock", path |-> ""])]
        ELSE IF env.spectral = "raise"
        THEN [exc |-> Exc("Exception", "spectral/pitch routine failed"),
              value |-> <<>>, files |-> left,
              trace |-> Append(began, [op |-> "spectral", path |-> ""])]
        ELSE [exc |-> NoExc,
              value |-> FeatureRecord("real", converted.path,
                                      JitterShimmerSource(praat, env), sample),
              files |-> left,
              trace |-> began \o <<[op |-> "spectral", path |-> ""],
                                   [op |-> "jitter_shimmer", path |-> ""]>>]

\* extract_features
ExtractFeatures(librosa, praat, env, sample) ==
    IF librosa THEN ExtractReal(praat, env, sample)
    ELSE [exc |-> NoExc, value |-> ExtractMock(sample), files |-> {},
          trace |-> <<[op |-> "extract_mock", path |-> ""]>>]

\* requests one process serves in a run of extract_features on its own
MaxRequests == 2

\* one call of extract_features: what the collaborators did, what the call
\* came to, and the modes of the records the process has returned so far
ExtractCall ==
    /\ entry = "extract"
    /\ extraction.calls < MaxRequests
    /\ \E env \in ExtractionEnvs, sample \in SessionSamples :
         LET out == ExtractFeatures(librosaAvail, praatAvail, env, sample)
         IN  extraction' =
               [calls |-> extraction.calls + 1,
                last |-> Some([env |-> env, out |-> out]),
                modes |-> extraction.modes
                          \cup (IF out.exc = NoExc THEN {out.value.mode}
                                ELSE {})]
    /\ UNCHANGED <<procVars, anVars, lexVars, scoring, loop>>

-----------------------------------------------------------------------------
(* risk_engine.py: baseline, placeholder, cognitive score, fusion,         *)
(* explanation                                                             *)

\* round(n / d) as Python rounds an exactly representable value: to even
RoundHalfEven(n, d) ==
    LET q == n \div d
        r == n % d
    IN  IF 2 * r < d THEN q
        ELSE IF 2 * r > d THEN q + 1
        ELSE IF q % 2 = 0 THEN q ELSE q + 1

\* round(n / d) of a float: a value that lies half-way in exact arithmetic
\* is not half-way as a float, and goes up or down with its representation
RoundTie(n, d, up) ==
    LET q == n \div d
        r == n % d
    IN  IF 2 * r < d THEN q
        ELSE IF 2 * r > d THEN q + 1
        ELSE IF up THEN q + 1 ELSE q

Clamp(v, lo, hi) == Max2(lo, Min2(hi, v))

Abs(x) == IF x < 0 THEN -x ELSE x

\* variant: the bins closed at their upper ends
BaselineStatusInclusive(deviation) ==
    IF deviation <= 2000 THEN "normal"
    ELSE IF deviation <= 4500 THEN "mild_drift"
    ELSE IF deviation <= 7000 THEN "significant_drift"
    ELSE "critical_drift"

\* deviation_score in hundredths; the status bins of compare_to_baseline
BaselineStatus(deviation) ==
    IF deviation < 2000 THEN "normal"
    ELSE IF deviation < 4500 THEN "mild_drift"
    ELSE IF deviation < 7000 THEN "significant_drift"
    ELSE "critical_drift"

CompareToBaseline(deviation) ==
    [deviation_score |-> deviation, status |-> BaselineStatus(deviation)]

\* the three drifts of compare_to_baseline, hundredths of a point, from
\* features in hundredths and the three random.uniform draws in hundredths
BaselineDrifts(feat, draws) ==
    [mfcc_drift |->
        Clamp(Abs(feat.jitter_percent - 120) * 15
              + Abs(feat.shimmer_percent - 350) * 5 + draws.mfcc,
              0, 10 * MAX_SCORE),
     pitch_deviation |->
        Clamp(Abs(feat.pitch_std_hz - 1200) * 3 + draws.pitch,
              0, 10 * MAX_SCORE),
     rhythm_deviation |->
        Clamp(Abs(feat.pause_ratio - 12) * 120 + draws.rhythm,
              0, 10 * MAX_SCORE)]

\* deviation = _clamp(round(0.4 m + 0.3 p + 0.3 r, 2))
BaselineDeviation(feat, draws, tieUp) ==
    LET d == BaselineDrifts(feat, draws)
    IN  Clamp(RoundTie(4 * d.mfcc_drift + 3 * d.pitch_deviation
                       + 3 * d.rhythm_deviation, 10, tieUp),
              0, 10 * MAX_SCORE)

\* lexical_analysis_placeholder: coherence_score drawn in [55, 95],
\* vocabulary_richness in [50, 90], repetition_index in [5, 40], all
\* rounded to one decimal (tenths here); summary is the index chosen
LexicalAnalysisPlaceholder(coherence) ==
    [coherence_score |-> coherence, vocabulary_richness |-> 700,
     repetition_index |-> 200, summary |-> 1]

\* the import-time load of the classifier: _ml_ready is set only after
\* joblib was imported, both neuro_risk_model.pkl and scaler.pkl exist and
\* every joblib.load returned
MlStartups ==
    [joblib : {"ok", "missing"}, model_file : BOOLEAN, scaler_file : BOOLEAN,
     load : {"ok", "raise"}]

MlStartup(startup) ==
    /\ startup.joblib = "ok"
    /\ startup.model_file /\ startup.scaler_file
    /\ startup.load = "ok"

\* 100 / (1 + exp(-x)) in ten-thousandths of a point, x in hundredths, at
\* the points the sampled calls use
Logistic(x) ==
    CASE x = -1000 -> 45
      [] x = -600 -> 2473
      [] x = -300 -> 47426
      [] x = -150 -> 182426
      [] x = -120 -> 231475
      [] x = 0 -> 500000
      [] x = 120 -> 768525
      [] x = 300 -> 952574
      [] x = 19000 -> 1000000
      [] x = 29400 -> 1000000

\* _sigmoid_risk: value and center in hundredths
SigmoidRisk(value, center, steepness) ==
    Logistic((value - center) * steepness)

\* _probability_to_risk: probability in hundredths, result in tenths
ProbabilityToRisk(proba_at_risk, tieUp) ==
    RoundTie(Clamp(Logistic((proba_at_risk - 50) * 6), 0, 1000 * MAX_SCORE),
             1000, tieUp)

\* _heuristic_acoustic_risk, tenths: features and deviation_score in
\* hundredths, the five risks in ten-thousandths of a point
HeuristicAcousticRisk(feat, baseline, tieUp) ==
    LET jitter_score == SigmoidRisk(feat.jitter_percent, 200, 3)
        shimmer_score == SigmoidRisk(feat.shimmer_percent, 500, 2)
        stability_risk == (100 - feat.pitch_stability) * 10000
        hnr_risk == Max2(0, 10000 - feat.harmonics_to_noise * 4) * 100
        baseline_risk == baseline.deviation_score * 100
        \* risk * 10^6
        risk == 20 * jitter_score + 15 * shimmer_score + 20 * stability_risk
                + 15 * hnr_risk + 30 * baseline_risk
    IN  RoundTie(Clamp(risk, 0, 100000 * MAX_SCORE), 100000, tieUp)

\* variant: the two scores added, and not clamped
BlendSum(ml_score, heuristic_score) == ml_score + heuristic_score

\* blended = round(_clamp(ml_score * 0.40 + heuristic_score * 0.60), 1)
Blend(ml_score, heuristic_score) ==
    RoundHalfEven(Clamp(4 * ml_score + 6 * heuristic_score, 0, 10 * MAX_SCORE),
                  10)

\* what can go wrong between build_model_feature_vector and the blend
InferenceOutcomes == {"ok", "vector_error", "predict_error", "decode_error"}

\* `if _ml_ready`: the try block with predict_proba is entered
ClassifierConsulted(ready) == ready

\* variant: the blend is returned whether or not the classifier was loaded
BlendRegardless(ready, inference, heuristic, blended) ==
    IF inference = "ok" THEN blended ELSE heuristic

\* compute_acoustic_risk: the heuristic score, blended with the classifier's
\* when the model is loaded and inference does not raise.  Both the
\* heuristic and the blend are round(_clamp(.), 1); their values are sampled.
ComputeAcousticRisk(ready, inference, heuristic, blended) ==
    IF ready /\ inference = "ok" THEN blended ELSE heuristic

\* variant: word_finding_difficulty and repetition_tendency not inverted
CognitiveScoreUninverted(metrics, tieUp) ==
    LET health400 == metrics["vocabulary_richness"].n
                     + metrics["sentence_coherence"].n
                     + metrics["word_finding_difficulty"].n
                     + metrics["repetition_tendency"].n
    IN  RoundTie(Clamp((400 - health400) * 10, 0, 4000), 4, tieUp)

\* compute_cognitive_score: tenths of a point from scores in hundredths
ComputeCognitiveScore(metrics, tieUp) ==
    LET vocab == metrics["vocabulary_richness"].n
        coherence == metrics["sentence_coherence"].n
        word_diff == metrics["word_finding_difficulty"].n
        repetition == metrics["repetition_tendency"].n
        \* health * 400
        health400 == vocab + coherence + (100 - word_diff) + (100 - repetition)
        \* risk = (1 - health) * 100 points = (400 - health400) / 4
    IN  RoundTie(Clamp((400 - health400) * 10, 0, 4000), 4, tieUp)

\* the random.uniform(-0.05, 0.05) of the confidence, hundredths
NoiseSamples == {-5, 5}

RiskLevel(final) ==
    IF final < 300 THEN "Low" ELSE IF final < 600 THEN "Medium" ELSE "High"

\* variant: the two scores weighted evenly
FinalScoreEvenWeights(acoustic, cognitive) ==
    IF cognitive # None
    THEN Clamp(RoundHalfEven(5 * acoustic + 5 * cognitive[1], 10), 0, MAX_SCORE)
    ELSE Clamp(acoustic, 0, MAX_SCORE)

\* the local final_score of compute_final_neuro_risk, tenths: the scores
\* come with one decimal, so 6a + 4c is even and round(., 1) meets no tie
FinalScore(acoustic, cognitive) ==
    IF cognitive # None
    THEN Clamp(RoundHalfEven(6 * acoustic + 4 * cognitive[1], 10), 0, MAX_SCORE)
    ELSE Clamp(acoustic, 0, MAX_SCORE)

\* base_confidence, hundredths
BaseConfidence(available) == IF available THEN 85 ELSE 65

\* compute_final_neuro_risk; cognitive is Optional
ComputeFinalNeuroRisk(acoustic, cognitive, noise, tieUp) ==
    LET available == cognitive # None
        final == FinalScore(acoustic, cognitive)
        \* confidence * 2000
        raw == 20 * BaseConfidence(available) - Abs(final - 500) + 20 * noise
    IN  [acoustic_risk_score |-> acoustic,
         cognitive_risk_score |-> cognitive,
         neuro_risk_level |-> RiskLevel(final),
         confidence |-> RoundTie(Clamp(raw, 20 * 30, 20 * 95), 20, tieUp),
         cognitive_available |-> available]

GenericRecommendations == <<"regular_monitoring", "healthy_lifestyle">>

\* variant: the generic recommendations follow whatever the rules gave
AlwaysGenericRecs(recs) == recs \o GenericRecommendations

\* `if not recs: recs.append(...); recs.append(...)`
WithGenericRecs(recs) == IF recs = <<>> THEN GenericRecommendations ELSE recs

\* generate_explanation: the clauses of the narrative and the
\* recommendations, by name, in the order the cascade appends them
GenerateExplanation(feat, baseline, risk, lex) ==
    LET jitterRule == feat.jitter_percent > 200
        stabilityRule == feat.pitch_stability < 60
        baselineRule ==
            baseline.status \in {"significant_drift", "critical_drift"}
        coherenceRule == lex.coherence_score < 650
        parts == (IF jitterRule THEN <<"jitter">> ELSE <<>>)
                 \o (IF stabilityRule THEN <<"stability">> ELSE <<>>)
                 \o (IF baselineRule THEN <<"baseline">> ELSE <<>>)
                 \o (IF coherenceRule THEN <<"coherence">> ELSE <<>>)
        recs == (IF jitterRule THEN <<"ent_evaluation">> ELSE <<>>)
                \o (IF baselineRule THEN <<"follow_up_recording">> ELSE <<>>)
                \o (IF coherenceRule THEN <<"cognitive_screening">> ELSE <<>>)
    IN  [explanation |->
            [level |-> risk.neuro_risk_level,
             score |-> risk.cognitive_risk_score,
             clauses |-> parts],
         recommendations |-> WithGenericRecs(recs)]

-----------------------------------------------------------------------------
(* transcription.py: transcribe_audio                                      *)

\* what a call of transcribe_audio meets: whether GROQ_API_KEY is set and
\* how the provider answers the POST
SttEnvs ==
    [groqKey : BOOLEAN,
     answer : {"ok", "http_error", "network_error"},
     text : {<<>>, <<" ">> \o transcript_placeholder}]

\* transcribe_audio: the stripped text, or None without a credential or
\* when the request fails
TranscribeAudio(stt) ==
    IF ~stt.groqKey THEN None
    ELSE IF stt.answer = "ok" THEN Some(Strip(stt.text))
    ELSE None

-----------------------------------------------------------------------------
(* main.py: analyze_audio                                                  *)

UploadSizes == {0, 99, 100}

Uploads ==
    { [readable |-> FALSE, size |-> 0] }
    \cup { [readable |-> TRUE, size |-> n] : n \in UploadSizes }

\* variant: the size check with a tenth of the minimum
TooSmallTenth(size) == size < 10

\* `if len(audio_bytes) < 100`
TooSmall(size) == size < MIN_AUDIO_BYTES

PipelineSteps ==
    <<"extract_features", "compare_to_baseline", "compute_acoustic_risk",
      "lexical_analysis_placeholder", "run_lexical_analysis">>

\* step 1: await file.read(), and the size check
AnalyzeRead ==
    /\ anPc = "start"
    /\ IF ~upload.readable \/ TooSmall(upload.size)
       THEN /\ httpStatus' = 400
            /\ anPc' = "rejected"
       ELSE /\ anPc' = "acoustic"
            /\ UNCHANGED httpStatus
    /\ UNCHANGED <<upload, steps, tmpFiles, features, acousticRisk, lexical,
                   response>>
    /\ UNCHANGED <<procVars, lexVars, unitVars>>

\* steps 2 to 5b, up to the await of run_lexical_analysis; an exception of
\* extract_features leaves the handler (the framework answers 500)
AnalyzeAcoustic ==
    /\ anPc = "acoustic"
    /\ \E env \in ExtractionEnvs, inference \in {"ok", "raise"},
          sample \in SessionSamples :
         LET extracted == ExtractFeatures(librosaAvail, praatAvail, env, sample)
         IN  /\ tmpFiles' = extracted.files
             /\ IF extracted.exc # NoExc
                THEN /\ steps' = <<"extract_features">>
                     /\ anPc' = "failed"
                     /\ httpStatus' = 500
                     /\ UNCHANGED <<features, acousticRisk, lexical>>
                     /\ UNCHANGED <<transcript, lexPc>>
                ELSE /\ steps' = PipelineSteps
                     /\ features' =
                          Some([value |-> extracted.value,
                                baseline |-> CompareToBaseline(sample.deviation)])
                     /\ acousticRisk' =
                          Some(ComputeAcousticRisk(mlReady, inference,
                                   sample.heuristic, sample.blended))
                     /\ lexical' =
                          Some(LexicalAnalysisPlaceholder(sample.coherence))
                     /\ transcript' = transcript_placeholder
                     /\ lexPc' = "called"
                     /\ anPc' = "await_lexical"
                     /\ UNCHANGED httpStatus
    /\ UNCHANGED <<upload, response>>
    /\ UNCHANGED <<attempt, events, keyRead, lastAnswer, lexResult>>
    /\ UNCHANGED <<procVars, unitVars>>

\* LexicalMetrics(...) of step 6
LexicalMetricsOf(result) == [k \in AllKeys |-> result[k]]

\* `if not cognitive_available: explanation += " Note: ..."`
AppendCaveat(clauses, available) ==
    IF available THEN clauses ELSE Append(clauses, "caveat")

\* variant: the retry recommendation is added only to an otherwise generic list
RetryOnlyWhenGeneric(recs, available) ==
    IF ~available /\ recs = GenericRecommendations
    THEN Append(recs, "retry_lexical") ELSE recs

\* `if not cognitive_available: recommendations.append("Re-record ...")`
AppendRetry(recs, available) ==
    IF available THEN recs ELSE Append(recs, "retry_lexical")

\* variant: a response without cognitive data reports a neutral concern
ConcernDefaultLow(available, result) ==
    IF available THEN Some(result["cognitive_concern"].s) ELSE Some("Low")

\* the local cognitive_concern of step 6
CognitiveConcernOf(available, result) ==
    IF available THEN Some(result["cognitive_concern"].s) ELSE None

\* steps 6 to 9, after run_lexical_analysis has returned
BuildResponse(feat, acoustic, lex, result, noise, tieUp) ==
    LET lexical_status == result["status"].s
        cognitive_available == lexical_status = "success"
        cognitive_score ==
            IF cognitive_available
            THEN Some(ComputeCognitiveScore(result, tieUp))
            ELSE None
        risk == ComputeFinalNeuroRisk(acoustic, cognitive_score, noise, tieUp)
        told == GenerateExplanation(feat.value, feat.baseline, risk, lex)
    IN  [acoustic_features |-> feat.value,
         baseline_comparison |-> feat.baseline,
         lexical_analysis |-> Some(lex),
         lexical_metrics |->
            IF cognitive_available THEN Some(LexicalMetricsOf(result))
            ELSE None,
         risk_scores |-> risk,
         cognitive_available |-> cognitive_available,
         lexical_status |-> lexical_status,
         lexical_error_message |->
            IF cognitive_available THEN None ELSE Some(result["message"].s),
         cognitive_concern |-> CognitiveConcernOf(cognitive_available, result),
         explanation |->
            [told.explanation EXCEPT !.clauses =
                AppendCaveat(@, cognitive_available)],
         recommendations |->
            AppendRetry(told.recommendations, cognitive_available)]

\* the await of step 5b ends: the handler goes on to the response, or the
\* exception that left run_lexical_analysis leaves the handler too
AnalyzeFinish ==
    /\ anPc = "await_lexical"
    /\ lexPc \in {"returned", "raised"}
    /\ IF lexPc = "raised"
       THEN /\ httpStatus' = 500
            /\ anPc' = "failed"
            /\ UNCHANGED response
       ELSE /\ \E noise \in NoiseSamples, tieUp \in BOOLEAN :
                 response' = Some(BuildResponse(features[1], acousticRisk[1],
                                                lexical[1], lexResult, noise,
                                                tieUp))
            /\ httpStatus' = 200
            /\ anPc' = "done"
    /\ UNCHANGED <<upload, steps, tmpFiles, features, acousticRisk, lexical>>
    /\ UNCHANGED <<procVars, lexVars, unitVars>>

-----------------------------------------------------------------------------
(* Unit calls of the scoring functions of risk_engine.py.  scoring.arg is  *)
(* the argument record of the call, scoring.out what the call came to.     *)

AcousticTenths == 0..MAX_SCORE

CognitiveTenths == {0, 200, 500, 746, 1000}

FusionArgs == [acoustic : AcousticTenths, cognitive : CognitiveTenths]

\* what one call of compute_final_neuro_risk comes to: the dict it returns
\* and its local final_score, which the dict does not carry
FusionOutcome(acoustic, cognitive, noise, tieUp) ==
    [result |-> ComputeFinalNeuroRisk(acoustic, cognitive, noise, tieUp),
     final_score |-> FinalScore(acoustic, cognitive)]

\* compute_final_neuro_risk(acoustic) and
\* compute_final_neuro_risk(acoustic, cognitive), each with its own draw
ScoreFusion ==
    /\ scoring.fn = "compute_final_neuro_risk"
    /\ scoring.out = None
    /\ \E n1 \in NoiseSamples, n2 \in NoiseSamples,
          t1 \in BOOLEAN, t2 \in BOOLEAN :
         LET a == scoring.arg[1].acoustic
             c == scoring.arg[1].cognitive
         IN  scoring' =
               [scoring EXCEPT !.out =
                  Some([alone |-> FusionOutcome(a, None, n1, t1),
                        both |-> FusionOutcome(a, Some(c), n2, t2),
                        noise |-> <<n1, n2>>])]
    /\ UNCHANGED <<procVars, anVars, lexVars, extraction, loop>>

\* the lexical scores of a unit call, hundredths
ScoreGrid == {0, 1, 50, 99, 100}

CognitiveArgs ==
    { [k \in ScoreKeySet |-> JFloat(f[k])] : f \in [ScoreKeySet -> ScoreGrid] }

\* compute_cognitive_score(metrics)
ScoreCognitive ==
    /\ scoring.fn = "compute_cognitive_score"
    /\ scoring.out = None
    /\ \E tieUp \in BOOLEAN :
         scoring' =
           [scoring EXCEPT !.out =
              Some([score |-> ComputeCognitiveScore(scoring.arg[1], tieUp)])]
    /\ UNCHANGED <<procVars, anVars, lexVars, extraction, loop>>

\* feature records handed to compare_to_baseline, hundredths
BaselineArgs ==
    [jitter_percent : {0, 120, 420, 10000},
     shimmer_percent : {350, 10000},
     pitch_std_hz : {0, 1200, 2700},
     pause_ratio : {12, 50, 100}]

\* random.uniform(-5, 5), (-3, 3) and (-4, 4), hundredths
BaselineDraws ==
    [mfcc : {-500, 0, 500}, pitch : {-300, 0, 300}, rhythm : {-400, -60, 400}]

\* compare_to_baseline(features)
ScoreBaseline ==
    /\ scoring.fn = "compare_to_baseline"
    /\ scoring.out = None
    /\ \E draws \in BaselineDraws, tieUp \in BOOLEAN :
         scoring' =
           [scoring EXCEPT !.out =
              Some(CompareToBaseline(
                     BaselineDeviation(scoring.arg[1], draws, tieUp)))]
    /\ UNCHANGED <<procVars, anVars, lexVars, extraction, loop>>

\* feature records and baselines handed to compute_acoustic_risk,
\* hundredths: jitter 0 and 100, HNR 0 and 100 among them
AcousticArgs ==
    [features : [jitter_percent : {0, 150, 200, 10000},
                 shimmer_percent : {0, 500, 10000},
                 pitch_stability : {0, 80, 100},
                 harmonics_to_noise : {0, 2000, 10000}],
     baseline : {CompareToBaseline(d) : d \in {0, 2500, 10000}},
     startup : MlStartups]

\* at-risk class probabilities of predict_proba, hundredths
Probabilities == {0, 30, 50, 70, 100}

\* compute_acoustic_risk(features, baseline); `except Exception` takes
\* whatever the ML blend raises, so the call returns
ScoreAcoustic ==
    /\ scoring.fn = "compute_acoustic_risk"
    /\ scoring.out = None
    /\ \E inference \in InferenceOutcomes, proba \in Probabilities,
          tieH \in BOOLEAN, tieP \in BOOLEAN :
         LET heuristic_score ==
                 HeuristicAcousticRisk(scoring.arg[1].features,
                                       scoring.arg[1].baseline, tieH)
             blended ==
                 Blend(ProbabilityToRisk(proba, tieP), heuristic_score)
             outcome ==
                 Returned(ComputeAcousticRisk(mlReady, inference,
                                              heuristic_score, blended))
         IN  scoring' =
               [scoring EXCEPT !.out =
                  Some([exc |-> outcome.exc,
                        value |-> outcome.value,
                        heuristic |-> heuristic_score,
                        consulted |-> ClassifierConsulted(mlReady),
                        inference |-> inference])]
    /\ UNCHANGED <<procVars, anVars, lexVars, extraction, loop>>

\* pipeline tails run on the same inputs in a unit call
MaxRuns == 2

\* verdicts handed to generate_explanation
RiskSamples ==
    { ComputeFinalNeuroRisk(a, c, 5, FALSE) :
        a \in {200, 800}, c \in {None, Some(200), Some(900)} }

\* what steps 5 and 8 of analyze_audio are run on
ExplainArgs ==
    [features : [jitter_percent : {150, 200, 250},
                 pitch_stability : {50, 60, 80}],
     baseline : {CompareToBaseline(d) : d \in {1000, 3000, 5000, 8000}},
     risk : RiskSamples]

\* coherence_score draws of lexical_analysis_placeholder, tenths
PlaceholderCoherence == {600, 650, 800}

\* steps 5 and 8 of analyze_audio for one request: the placeholder is
\* drawn, generate_explanation is called with it, the caveat and the retry
\* recommendation are appended
ExplainRun ==
    /\ scoring.fn = "generate_explanation"
    /\ Len(scoring.out) < MaxRuns
    /\ \E coherence \in PlaceholderCoherence :
         LET x == scoring.arg[1]
             lex == LexicalAnalysisPlaceholder(coherence)
             told == GenerateExplanation(x.features, x.baseline, x.risk, lex)
             available == x.risk.cognitive_available
         IN  scoring' =
               [scoring EXCEPT !.out =
                  Append(@, [lexical |-> lex,
                             told |-> told,
                             explanation |->
                                [told.explanation EXCEPT !.clauses =
                                    AppendCaveat(@, available)],
                             recommendations |->
                                AppendRetry(told.recommendations, available)])]
    /\ UNCHANGED <<procVars, anVars, lexVars, extraction, loop>>

ExplainCalls ==
    { [fn |-> "generate_explanation", arg |-> Some(x), out |-> <<>>] :
        x \in ExplainArgs }

ScoringCalls ==
    { [fn |-> "compute_final_neuro_risk", arg |-> Some(x), out |-> None] :
        x \in FusionArgs }
    \cup { [fn |-> "compute_cognitive_score", arg |-> Some(x), out |-> None] :
        x \in CognitiveArgs }
    \cup { [fn |-> "compare_to_baseline", arg |-> Some(x), out |-> None] :
        x \in BaselineArgs }
    \cup { [fn |-> "compute_acoustic_risk", arg |-> Some(x), out |-> None] :
        x \in AcousticArgs }

-----------------------------------------------------------------------------
(* The runs: one call of run_lexical_analysis with a sampled transcript,   *)
(* or one request to /api/analyze.                                         *)

\* no request to /api/analyze is in progress
NoRequest ==
    /\ upload = [readable |-> FALSE, size |-> 0]
    /\ anPc = "none"
    /\ steps = <<>>
    /\ tmpFiles = {}
    /\ features = None
    /\ acousticRisk = None
    /\ lexical = None
    /\ httpStatus = 0
    /\ response = None
    /\ loop = NoLoop

\* no call of run_lexical_analysis is in progress
NoLexicalCall ==
    /\ transcript = <<>>
    /\ lexPc = "idle"
    /\ attempt = 0
    /\ events = <<>>
    /\ keyRead = FALSE
    /\ lastAnswer = None
    /\ lexResult = <<>>

Init ==
    /\ entry \in {"lexical", "analyze"}
    /\ apiKeySet \in BOOLEAN
    /\ IF entry = "lexical"
       THEN /\ librosaAvail = TRUE /\ praatAvail = TRUE /\ mlReady = TRUE
            /\ upload = [readable |-> FALSE, size |-> 0]
            /\ anPc = "none"
            /\ transcript \in Transcripts
            /\ lexPc = "called"
       ELSE /\ librosaAvail \in BOOLEAN
            /\ praatAvail \in BOOLEAN
            /\ mlReady \in BOOLEAN
            /\ upload \in Uploads
            /\ anPc = "start"
            /\ transcript = <<>>
            /\ lexPc = "idle"
    /\ steps = <<>>
    /\ tmpFiles = {}
    /\ features = None
    /\ acousticRisk = None
    /\ lexical = None
    /\ httpStatus = 0
    /\ response = None
    /\ attempt = 0
    /\ events = <<>>
    /\ keyRead = FALSE
    /\ lastAnswer = None
    /\ lexResult = <<>>
    /\ extraction = NoExtraction
    /\ scoring = NoScoring
    /\ loop = NoLoop

Next ==
    \/ LexBegin
    \/ LexAttempt
    \/ LexWake
    \/ AnalyzeRead
    \/ AnalyzeAcoustic
    \/ AnalyzeFinish

Spec == Init /\ [][Next]_vars

\* One call of run_lexical_analysis on its own.  The event loop resumes a
\* coroutine whose await has completed, and both awaits complete: the POST
\* within REQUEST_TIMEOUT_SECONDS, the sleep after its delay.
InitLexical == Init /\ entry = "lexical"

NextLexical ==
    \/ LexBegin
    \/ LexAttempt
    \/ LexWake

LexicalSpec == InitLexical /\ [][NextLexical]_vars

FairLexicalSpec == LexicalSpec /\ WF_vars(NextLexical)

\* Requests of one process to extract_features on its own.
InitExtract ==
    /\ entry = "extract"
    /\ librosaAvail \in BOOLEAN
    /\ praatAvail \in BOOLEAN
    /\ mlReady = TRUE /\ apiKeySet = TRUE
    /\ NoRequest
    /\ NoLexicalCall
    /\ extraction = NoExtraction
    /\ scoring = NoScoring

NextExtract ==
    \/ ExtractCall

ExtractSpec == InitExtract /\ [][NextExtract]_vars

\* One call of a scoring function of risk_engine.py on its own.
InitScoring ==
    /\ entry = "scoring"
    /\ librosaAvail = TRUE /\ praatAvail = TRUE /\ apiKeySet = TRUE
    /\ NoRequest
    /\ NoLexicalCall
    /\ extraction = NoExtraction
    /\ scoring \in ScoringCalls
    /\ mlReady = IF scoring.fn = "compute_acoustic_risk"
                 THEN MlStartup(scoring.arg[1].startup)
                 ELSE FALSE

NextScoring ==
    \/ ScoreFusion
    \/ ScoreCognitive
    \/ ScoreBaseline
    \/ ScoreAcoustic

ScoringSpec == InitScoring /\ [][NextScoring]_vars

\* Requests with the same features, baseline and verdict, from step 5 on.
InitExplain ==
    /\ entry = "explain"
    /\ librosaAvail = TRUE /\ praatAvail = TRUE /\ apiKeySet = TRUE
    /\ mlReady = TRUE
    /\ NoRequest
    /\ NoLexicalCall
    /\ extraction = NoExtraction
    /\ scoring \in ExplainCalls

NextExplain ==
    \/ ExplainRun

ExplainSpec == InitExplain /\ [][NextExplain]_vars

-----------------------------------------------------------------------------
(* Requests in flight.  analyze_audio is a coroutine of the server's one   *)
(* event loop: the code between two awaits runs without interruption, and  *)
(* a coroutine suspended at an await leaves the loop to the others.        *)
(* loop.ticks counts the iterations of the loop; a request records the     *)
(* iteration at which it began and the one at which its sleep began.       *)

Requests == {"A", "B"}

NewRequest == [pc |-> "new", attempt |-> 0, began |-> 0, slept |-> 0,
               status |-> 0]

\* variant: the backoff is a blocking sleep, only the I/O awaits suspend
SuspendsOnIoOnly(point) == point \in {"read", "post"}

\* `await file.read()`, `await client.post(...)`, `await asyncio.sleep(...)`:
\* the points at which a request waits suspended
Suspends(point) == point \in {"read", "post", "sleep"}

Waiting(r) == loop.req[r].pc \in {"read", "post", "sleep"}

\* the loop's thread is not held by another request
Runnable(r) ==
    \A o \in Requests \ {r} : Waiting(o) => Suspends(loop.req[o].pc)

Finished(r) == loop.req[r].pc \in {"done", "rejected"}

Advance(r, fields) ==
    loop' = [ticks |-> loop.ticks + 1,
             req |-> [loop.req EXCEPT ![r] = fields]]

\* the for statement of the retry loop takes its next value or is exhausted
NextPass(q) ==
    IF HasNextAttempt(q.attempt)
    THEN [q EXCEPT !.pc = "post", !.attempt = @ + 1]
    ELSE [q EXCEPT !.pc = "done", !.status = 200]

\* the handler is entered and suspends at `await file.read()`
ServeArrive(r) ==
    /\ loop.req[r].pc = "new"
    /\ Runnable(r)
    /\ Advance(r, [loop.req[r] EXCEPT !.pc = "read",
                                      !.began = loop.ticks + 1])
    /\ UNCHANGED <<procVars, anVars, lexVars, extraction, scoring>>

\* the upload is read: the size check, then steps 2 to 5b up to the first
\* POST of the wrapper, or to the response when the credential is missing
ServeRead(r) ==
    /\ loop.req[r].pc = "read"
    /\ Runnable(r)
    /\ \E size \in UploadSizes :
         Advance(r, IF TooSmall(size)
                    THEN [loop.req[r] EXCEPT !.pc = "rejected", !.status = 400]
                    ELSE IF CredentialMissing(apiKeySet)
                    THEN [loop.req[r] EXCEPT !.pc = "done", !.status = 200]
                    ELSE [loop.req[r] EXCEPT !.pc = "post", !.attempt = 1])
    /\ UNCHANGED <<procVars, anVars, lexVars, extraction, scoring>>

\* the POST is answered: the request goes to sleep, to its next POST, or
\* builds its response
ServeAnswer(r) ==
    /\ loop.req[r].pc = "post"
    /\ Runnable(r)
    /\ \E ans \in ProviderAnswers :
         LET q == loop.req[r]
         IN  Advance(r, IF IsAuthFailure(ans) \/ IsHttpSuccess(ans)
                        THEN [q EXCEPT !.pc = "done", !.status = 200]
                        ELSE IF ShouldBackoff(q.attempt)
                        THEN [q EXCEPT !.pc = "sleep",
                                       !.slept = loop.ticks + 1]
                        ELSE NextPass(q))
    /\ UNCHANGED <<procVars, anVars, lexVars, extraction, scoring>>

\* asyncio.sleep(backoff) ends
ServeWake(r) ==
    /\ loop.req[r].pc = "sleep"
    /\ Runnable(r)
    /\ Advance(r, NextPass(loop.req[r]))
    /\ UNCHANGED <<procVars, anVars, lexVars, extraction, scoring>>

ServeStep(r) ==
    \/ ServeArrive(r)
    \/ ServeRead(r)
    \/ ServeAnswer(r)
    \/ ServeWake(r)

InitServing ==
    /\ entry = "serve"
    /\ librosaAvail = TRUE /\ praatAvail = TRUE /\ mlReady = TRUE
    /\ apiKeySet \in BOOLEAN
    /\ upload = [readable |-> FALSE, size |-> 0]
    /\ anPc = "none"
    /\ steps = <<>>
    /\ tmpFiles = {}
    /\ features = None
    /\ acousticRisk = None
    /\ lexical = None
    /\ httpStatus = 0
    /\ response = None
    /\ NoLexicalCall
    /\ extraction = NoExtraction
    /\ scoring = NoScoring
    /\ loop = [ticks |-> 0, req |-> [r \in Requests |-> NewRequest]]

NextServing ==
    \/ \E r \in Requests : ServeArrive(r)
    \/ \E r \in Requests : ServeRead(r)
    \/ \E r \in Requests : ServeAnswer(r)
    \/ \E r \in Requests : ServeWake(r)

ServingSpec == InitServing /\ [][NextServing]_vars

-----------------------------------------------------------------------------
(* Properties                                                              *)

Resolved == lexPc = "returned"
LexStatus == IF Resolved THEN lexResult["status"].s ELSE ""
ErrorKind ==
    IF Resolved /\ "error_type" \in DOMAIN lexResult
    THEN lexResult["error_type"].s ELSE ""

Calls == SelectSeq(events, LAMBDA e : e.ev = "call")
Sleeps == SelectSeq(events, LAMBDA e : e.ev = "sleep")

NonBlankCount ==
    Cardinality({i \in 1..Len(transcript) : transcript[i] # " "})

\* the provider answered with HTTP 200 and a completion holding a JSON object
IsObjectAnswer(a) ==
    /\ a.kind = "http" /\ a.status = 200
    /\ a.envelope = "ok" /\ a.payload = "object"

\* all five keys, JSON numbers for the scores, an allowed concern
WellTyped(body) ==
    /\ \A k \in ScoreKeySet :
         k \in DOMAIN body /\ body[k].t \in {"int", "float"}
    /\ "cognitive_concern" \in DOMAIN body
    /\ body["cognitive_concern"].t = "str"
    /\ body["cognitive_concern"].s \in {"Low", "Medium", "High"}

\* C1: a result of run_lexical_analysis with status 'unavailable' holds
\* status, error_type and message and nothing else: no score, no concern.
C1_UnavailableHoldsNoMetrics ==
    LexStatus = "unavailable" =>
        DOMAIN lexResult = {"status", "error_type", "message"}

\* C1 happens: the provider answered 200 with an unusable body
C1_Witness ==
    /\ LexStatus = "unavailable"
    /\ lastAnswer # None
    /\ IsObjectAnswer(lastAnswer[1])
    /\ ~WellTyped(lastAnswer[1].body)

\* C2: when the lexical outcome is Unavailable the response carries the
\* unavailability flags and none of the lexical score fields
\* (lexical_analysis, lexical_metrics, cognitive_risk_score,
\* cognitive_concern) is present.
C2_NoLexicalNumbersWhenUnavailable ==
    (response # None /\ LexStatus = "unavailable") =>
        /\ response[1].cognitive_available = FALSE
        /\ response[1].lexical_status = "unavailable"
        /\ response[1].lexical_analysis = None
        /\ response[1].lexical_metrics = None
        /\ response[1].risk_scores.cognitive_risk_score = None
        /\ response[1].cognitive_concern = None

\* C3: a Success comes only from an answer with all five keys, JSON numbers
\* (int or float, not bool, string or null) for the four scores and a concern
\* in {Low, Medium, High}, and its scores lie in [0, 1]; an object that
\* misses a key or has a wrongly typed or out-of-enum value gives Unavailable.
C3_SuccessOnlyFromWellTypedAnswer ==
    (Resolved /\ lastAnswer # None) =>
        /\ LexStatus = "success" =>
             /\ IsObjectAnswer(lastAnswer[1])
             /\ WellTyped(lastAnswer[1].body)
             /\ \A k \in ScoreKeySet :
                  lexResult[k].t = "float" /\ lexResult[k].n \in 0..100
        /\ (IsObjectAnswer(lastAnswer[1]) /\ ~WellTyped(lastAnswer[1].body))
             => LexStatus = "unavailable"

TimeoutCall == [ev |-> "call", secs |-> 0, kind |-> "timeout", status |-> 0]

ThreeTimeouts ==
    <<TimeoutCall, SleepEvent(1), TimeoutCall, SleepEvent(2), TimeoutCall>>

OnlyTimeouts ==
    /\ events # <<>>
    /\ \A i \in 1..Len(events) :
         events[i].ev = "call" => events[i].kind = "timeout"

\* C4: while every call times out the wrapper does call, sleep 1s, call,
\* sleep 2s, call and nothing more; it returns exactly after the third call,
\* with Unavailable / api_failure.
C4_ThreeTimeoutsThenApiFailure ==
    OnlyTimeouts =>
        /\ Len(events) <= Len(ThreeTimeouts)
        /\ events = SubSeq(ThreeTimeouts, 1, Len(events))
        /\ Resolved <=> events = ThreeTimeouts
        /\ Resolved => (LexStatus = "unavailable" /\ ErrorKind = "api_failure")

\* C4 happens: three timeouts in a row, and the wrapper has returned
C4_Witness == Resolved /\ events = ThreeTimeouts

\* C5: a call answered 401 or 403 is the last event of the run, at whatever
\* attempt it comes: no call and no sleep follows it, and the run has
\* returned Unavailable.
C5_AuthFailureEndsTheLoop ==
    \A i \in 1..Len(events) :
        (events[i].ev = "call" /\ events[i].status \in {401, 403}) =>
            /\ i = Len(events)
            /\ LexStatus = "unavailable"

\* C5 happens: a 403 on the second attempt (after one backoff sleep)
C5_Witness ==
    /\ Len(events) = 3
    /\ events[3].ev = "call" /\ events[3].status = 403
    /\ Resolved

-----------------------------------------------------------------------------
(* Properties of the scoring functions                                     *)

FusionDone ==
    scoring.fn = "compute_final_neuro_risk" /\ scoring.out # None

\* 0.6 * acoustic + 0.4 * cognitive of the call, in hundredths of a point
ExactFusion == 6 * scoring.arg[1].acoustic + 4 * scoring.arg[1].cognitive

C12_LevelFollowsExactFusion ==
    FusionDone =>
        scoring.out[1].both.result.neuro_risk_level =
            (IF ExactFusion < 3000 THEN "Low"
             ELSE IF ExactFusion < 6000 THEN "Medium" ELSE "High")

\* C13 as stated: for the same acoustic risk the confidence without
\* cognitive data is strictly lower than the confidence with it, whatever
\* the cognitive score and the two noise draws.
C13_MissingCognitiveLowersConfidence ==
    FusionDone =>
        scoring.out[1].alone.result.confidence
            < scoring.out[1].both.result.confidence

CognitiveDone ==
    scoring.fn = "compute_cognitive_score" /\ scoring.out # None

\* 400 * (1 - health) of the call: the lexical scores are in hundredths
Unhealth400 ==
    LET x == scoring.arg[1]
    IN  400 - (x["vocabulary_richness"].n + x["sentence_coherence"].n
               + (100 - x["word_finding_difficulty"].n)
               + (100 - x["repetition_tendency"].n))

\* metrics y are no healthier than metrics x: vocabulary and coherence no
\* higher, word finding difficulty and repetition no lower
NoHealthier(y, x) ==
    /\ y["vocabulary_richness"].n <= x["vocabulary_richness"].n
    /\ y["sentence_coherence"].n <= x["sentence_coherence"].n
    /\ y["word_finding_difficulty"].n >= x["word_finding_difficulty"].n
    /\ y["repetition_tendency"].n >= x["repetition_tendency"].n

\* the part of C14 that does not depend on the precision of the result:
\* 0 for (1, 1, 0, 0), 100 for (0, 0, 1, 1), a value in [0, 100], and no
\* lower a score for other metrics that are no healthier
CognitiveScoreShape ==
    LET x == scoring.arg[1]
        score == scoring.out[1].score
    IN  /\ (Unhealth400 = 0 => score = 0)
        /\ (Unhealth400 = 400 => score = MAX_SCORE)
        /\ score \in 0..MAX_SCORE
        /\ \A y \in CognitiveArgs, tieUp \in BOOLEAN :
              (y # x /\ NoHealthier(y, x)) =>
                  ComputeCognitiveScore(y, tieUp) >= score

\* C14 as stated: compute_cognitive_score returns 100 * (1 - health), is 0
\* for (1, 1, 0, 0) and 100 for (0, 0, 1, 1), lies in [0, 100] and never
\* decreases when vocabulary or coherence falls or word finding difficulty
\* or repetition rises.
C14_CognitiveScoreIsInverseHealth ==
    CognitiveDone =>
        /\ 4 * scoring.out[1].score = 10 * Unhealth400
        /\ CognitiveScoreShape

\* C14 (amended): compute_cognitive_score returns 100 * (1 - health) rounded
\* to one decimal place (within 0.05 of it), is 0 for (1, 1, 0, 0) and 100
\* for (0, 0, 1, 1), lies in [0, 100] and never decreases when vocabulary or
\* coherence falls or word finding difficulty or repetition rises.
C14_CognitiveScoreIsRoundedInverseHealth ==
    CognitiveDone =>
        /\ Abs(4 * scoring.out[1].score - 10 * Unhealth400) <= 2
        /\ CognitiveScoreShape

\* the score of the least healthy metrics (0, 0, 1, 1) was computed: 100
C14_Witness ==
    /\ CognitiveDone
    /\ Unhealth400 = 400
    /\ scoring.out[1].score = MAX_SCORE

BaselineDone ==
    scoring.fn = "compare_to_baseline" /\ scoring.out # None

Severity(status) ==
    CASE status = "normal" -> 0
      [] status = "mild_drift" -> 1
      [] status = "significant_drift" -> 2
      [] status = "critical_drift" -> 3
      [] OTHER -> 4

\* C15: the status compare_to_baseline returns is fixed by the returned
\* deviation_score through the bins normal < 20 <= mild_drift < 45 <=
\* significant_drift < 70 <= critical_drift; the score lies in [0, 100] and
\* a larger score never has a milder status.
C15_StatusFollowsDeviationBins ==
    BaselineDone =>
        LET d == scoring.out[1].deviation_score
            st == scoring.out[1].status
        IN  /\ d \in 0..(10 * MAX_SCORE)
            /\ (st = "normal") = (d < 2000)
            /\ (st = "mild_drift") = (2000 <= d /\ d < 4500)
            /\ (st = "significant_drift") = (4500 <= d /\ d < 7000)
            /\ (st = "critical_drift") = (d >= 7000)
            /\ \A e \in {0, 1999, 2000, 4499, 4500, 6999, 7000, 10000} :
                  /\ (e <= d => Severity(BaselineStatus(e)) <= Severity(st))
                  /\ (e >= d => Severity(BaselineStatus(e)) >= Severity(st))

\* a deviation_score of exactly 45 was returned, as significant_drift
C15_Witness ==
    /\ BaselineDone
    /\ scoring.out[1].deviation_score = 4500
    /\ scoring.out[1].status = "significant_drift"

AcousticDone ==
    scoring.fn = "compute_acoustic_risk" /\ scoring.out # None

\* C16: compute_acoustic_risk returns a value in [0, 100] for every feature
\* record and baseline, the extremes jitter 0 and 100 and HNR 0 and 100
\* included, with the classifier loaded (any at-risk probability) or not.
C16_AcousticRiskInRange ==
    AcousticDone =>
        /\ scoring.out[1].exc = NoExc
        /\ scoring.out[1].value \in 0..MAX_SCORE
        /\ scoring.out[1].heuristic \in 0..MAX_SCORE

\* jitter 100 and HNR 0 were scored with the classifier loaded and answering
C16_Witness ==
    /\ AcousticDone
    /\ scoring.arg[1].features.jitter_percent = 10000
    /\ scoring.arg[1].features.harmonics_to_noise = 0
    /\ scoring.out[1].consulted
    /\ scoring.out[1].inference = "ok"
    /\ scoring.out[1].value \in 0..MAX_SCORE

\* C17: when the classifier was not loaded at startup or a step of its
\* inference raises, compute_acoustic_risk returns the heuristic score of
\* the same features and baseline and raises nothing; the classifier is
\* consulted only when the startup load completed with model and scaler.
C17_HeuristicFallback ==
    AcousticDone =>
        LET startup == scoring.arg[1].startup
            out == scoring.out[1]
        IN  /\ out.exc = NoExc
            /\ (~MlStartup(startup) \/ out.inference # "ok") =>
                  out.value = out.heuristic
            /\ out.consulted =>
                  /\ startup.model_file /\ startup.scaler_file
                  /\ startup.load = "ok"

\* scaler.pkl was missing at startup, the classifier would have answered
\* with another score, and the heuristic score was returned
C17_Witness ==
    /\ AcousticDone
    /\ scoring.arg[1].startup.model_file
    /\ ~scoring.arg[1].startup.scaler_file
    /\ ~scoring.out[1].consulted
    /\ scoring.out[1].inference = "ok"
    /\ scoring.out[1].value = scoring.out[1].heuristic

-----------------------------------------------------------------------------
(* Properties of extract_features                                          *)

Extracted == extraction.last # None
LastEnv == extraction.last[1].env
LastOut == extraction.last[1].out

\* C18 as stated: the real pipeline runs only if both the spectral/pitch
\* library and the voice-quality library were found at process start; if
\* either is missing every request of the process gets mock-mode output.
C18_RealOnlyWithBothLibraries ==
    (~(librosaAvail /\ praatAvail)) => extraction.modes \subseteq {"mock"}

\* C19: in real mode the transcoder is tried first; if it fails the
\* original bytes are decoded, else its output; if the decode fails the
\* call returns a mock-mode record and raises nothing.
C19_FallbackOrder ==
    (Extracted /\ librosaAvail) =>
        /\ Len(LastOut.trace) >= 2
        /\ LastOut.trace[1].op = "transcode"
        /\ LastOut.trace[2].op = "decode"
        /\ LastOut.trace[2].path =
              (IF LastEnv.transcode = "ok" THEN "wav" ELSE "webm")
        /\ (LastEnv.decode = "fail" =>
              /\ LastOut.exc = NoExc
              /\ LastOut.value.mode = "mock"
              /\ LastOut.trace[3].op = "extract_mock")

\* the transcoder failed, the original bytes did not decode either, and the
\* call returned a mock-mode record
C19_Witness ==
    /\ Extracted /\ librosaAvail
    /\ LastEnv.transcode = "exit_error"
    /\ LastEnv.decode = "fail"
    /\ LastOut.trace[2] = [op |-> "decode", path |-> "webm"]
    /\ LastOut.exc = NoExc
    /\ LastOut.value.mode = "mock"

\* C20 as stated: after a real-mode extraction call has ended, however it
\* ended and whatever the transcoder did, no temporary file of the call
\* is left.
C20_NoTemporaryFileLeft ==
    (Extracted /\ librosaAvail) => LastOut.files = {}

-----------------------------------------------------------------------------
(* Properties of the response                                              *)

Responded == response # None

InSeq(x, seq) == \E i \in 1..Len(seq) : seq[i] = x

\* C21: a response without cognitive data carries the caveat sentence in
\* its explanation and the retry recommendation in its list, whichever
\* other rules fired; a response with cognitive data carries neither.
C21_CaveatAndRetryWhenUnavailable ==
    Responded =>
        LET r == response[1]
        IN  /\ InSeq("caveat", r.explanation.clauses)
              = ~r.cognitive_available
            /\ InSeq("retry_lexical", r.recommendations)
              = ~r.cognitive_available

\* a response without cognitive data in which the jitter rule fired too
C21_Witness ==
    /\ Responded
    /\ ~response[1].cognitive_available
    /\ InSeq("jitter", response[1].explanation.clauses)
    /\ InSeq("ent_evaluation", response[1].recommendations)
    /\ InSeq("caveat", response[1].explanation.clauses)
    /\ InSeq("retry_lexical", response[1].recommendations)

-----------------------------------------------------------------------------
(* Properties of the retry loop and of the completion handling             *)

Ended == lexPc \in {"returned", "raised"}

\* a call that failed in a way the loop retries
Transient(e) ==
    /\ e.ev = "call"
    /\ \/ e.kind \in {"timeout", "network_error"}
       \/ e.kind = "http" /\ e.status \notin 200..299
          /\ e.status \notin {401, 403}

GoodCall(e) == e.ev = "call" /\ e.kind = "http" /\ e.status \in 200..299

RECURSIVE SumSecs(_)
SumSecs(seq) == IF seq = <<>> THEN 0 ELSE Head(seq).secs + SumSecs(Tail(seq))

\* a completion that is a JSON object with the five keys well typed
Usable(a) ==
    /\ a.envelope = "ok" /\ a.fence \in {"none", "fenced"}
    /\ a.payload = "object"
    /\ WellTyped(a.body)

\* C26: when k - 1 transient failures (timeout, network error, HTTP error
\* other than 401/403) are followed by a good answer at attempt k <= 3,
\* exactly k calls were made, the k - 1 sleeps between them last 1 s then
\* 2 s, nothing follows the good answer, and the outcome is Success when
\* the body is valid; no run makes more than 3 calls or sleeps more than
\* 3 s in all.
C26_RetriesThenGoodAnswer ==
    /\ Len(Calls) <= MAX_RETRIES + 1
    /\ SumSecs(Sleeps) <= 3 * BASE_BACKOFF_SECONDS
    /\ \A k \in 1..Len(Calls) :
         (GoodCall(Calls[k]) /\ \A j \in 1..(k - 1) : Transient(Calls[j])) =>
            /\ k <= MAX_RETRIES + 1
            /\ Len(Calls) = k
            /\ Len(Sleeps) = k - 1
            /\ [i \in 1..Len(Sleeps) |-> Sleeps[i].secs]
                 = SubSeq(<<1, 2>>, 1, k - 1)
            /\ \A i \in 1..Len(events) :
                 events[i].ev = (IF i % 2 = 1 THEN "call" ELSE "sleep")
            /\ events[Len(events)] = Calls[k]
            /\ Ended
            /\ Usable(lastAnswer[1]) => LexStatus = "success"

\* two transient failures, two sleeps, then a good answer with a valid
\* body at the third attempt
C26_Witness ==
    /\ Len(Calls) = 3
    /\ Transient(Calls[1]) /\ Transient(Calls[2]) /\ GoodCall(Calls[3])
    /\ Len(Sleeps) = 2
    /\ Usable(lastAnswer[1])
    /\ LexStatus = "success"

\* C27 as stated: when the provider answers with HTTP success and a body
\* that cannot be used (no completion text, not JSON, not an object, a key
\* missing, a value wrongly typed, a concern out of the enum), the outcome
\* is Unavailable with error kind api_failure, and no call and no sleep
\* follows.
C27_UnusableBodyIsApiFailure ==
    (lastAnswer # None /\ IsHttpSuccess(lastAnswer[1])
        /\ ~Usable(lastAnswer[1])) =>
        /\ Resolved
        /\ LexStatus = "unavailable"
        /\ ErrorKind = "api_failure"
        /\ events[Len(events)].ev = "call"
        /\ GoodCall(events[Len(events)])

\* C28: without a provider credential a valid transcript yields Unavailable
\* with error kind api_failure and no call and no sleep is made; an empty
\* or too short transcript is still reported as an input error, and the
\* credential is not looked up for it.
C28_MissingCredential ==
    LET invalid == NoTranscript(transcript) \/ TooShort(transcript)
    IN  /\ (invalid /\ entry = "lexical") => ~keyRead
        /\ (~apiKeySet /\ entry = "lexical") =>
              /\ events = <<>>
              /\ lexPc # "called" =>
                    /\ LexStatus = "unavailable"
                    /\ IF invalid
                       THEN ErrorKind \in {"empty_transcript",
                                           "input_validation"}
                       ELSE ErrorKind = "api_failure" /\ keyRead

\* a valid transcript was refused for want of the credential
C28_Witness ==
    /\ ~apiKeySet
    /\ ~NoTranscript(transcript) /\ ~TooShort(transcript)
    /\ Resolved
    /\ ErrorKind = "api_failure"
    /\ events = <<>>

\* C25: a request that waits for the answer of its lexical network call or
\* sleeps in a retry backoff does not stop another request: whatever the
\* other request has left to do, its next step can be taken, so it can run
\* its whole pipeline to completion before the sleep ends.
C25_WaitingDoesNotBlockOthers ==
    entry = "serve" =>
        \A a \in Requests : \A b \in Requests \ {a} :
            (loop.req[a].pc \in {"post", "sleep"} /\ ~Finished(b)) =>
                /\ Runnable(b)
                /\ ENABLED ServeStep(b)

\* a request began after another went to sleep and has made its own
\* lexical call and finished, while that sleep still lasts
C25_Witness ==
    /\ entry = "serve"
    /\ \E a \in Requests : \E b \in Requests \ {a} :
         /\ loop.req[a].pc = "sleep"
         /\ loop.req[b].pc = "done"
         /\ loop.req[b].attempt >= 1
         /\ loop.req[b].began > loop.req[a].slept

\* C23 as stated: when the speech-to-text step yields no transcript
\* (provider failure or missing credential), the lexical step of the
\* request receives the empty transcript, the lexical outcome is
\* Unavailable, no network call is made to the LLM provider and the verdict
\* has cognitive_available = false.
C23_NoTranscriptMeansNoLexicalCall ==
    \A stt \in SttEnvs :
        (TranscribeAudio(stt) = None /\ entry = "analyze" /\ lexPc # "idle") =>
            /\ NoTranscript(transcript)
            /\ Calls = <<>>
            /\ Resolved => LexStatus = "unavailable"
            /\ Responded => ~response[1].risk_scores.cognitive_available

\* C29: in every response the availability indicators agree: the top-level
\* flag, the flag of risk_scores, lexical_status = "success", the presence
\* of lexical_metrics, of risk_scores.cognitive_risk_score and of
\* cognitive_concern, and the absence of lexical_error_message.
C29_AvailabilityIndicatorsAgree ==
    Responded =>
        LET r == response[1]
            available == r.cognitive_available
        IN  /\ r.risk_scores.cognitive_available = available
            /\ (r.lexical_status = "success") = available
            /\ (r.lexical_metrics # None) = available
            /\ (r.risk_scores.cognitive_risk_score # None) = available
            /\ (r.cognitive_concern # None) = available
            /\ (r.lexical_error_message = None) = available

\* a response without cognitive data has been built
C29_Witness ==
    /\ Responded
    /\ ~response[1].cognitive_available
    /\ response[1].lexical_status = "unavailable"
    /\ response[1].lexical_error_message # None
    /\ response[1].cognitive_concern = None

\* C30 as stated: the score quoted in the opening sentence of every
\* explanation is a number in the band of the level the sentence names
\* (below 30 Low, 30 to below 60 Medium, 60 or more High), with and without
\* cognitive data.
C30_QuotedScoreInBandOfLevel ==
    Responded =>
        LET told == response[1].explanation
        IN  /\ told.score # None
            /\ RiskLevel(told.score[1]) = told.level

-----------------------------------------------------------------------------
(* Properties of generate_explanation                                      *)

Explained == scoring.fn = "generate_explanation" /\ Len(scoring.out) >= 1

JitterRule == scoring.arg[1].features.jitter_percent > 200
StabilityRule == scoring.arg[1].features.pitch_stability < 60
DriftRule ==
    scoring.arg[1].baseline.status \in {"significant_drift", "critical_drift"}
CoherenceRule(run) == run.lexical.coherence_score < 650

HasGeneric(run) ==
    /\ InSeq("regular_monitoring", run.told.recommendations)
    /\ InSeq("healthy_lifestyle", run.told.recommendations)

NoGeneric(run) ==
    /\ ~InSeq("regular_monitoring", run.told.recommendations)
    /\ ~InSeq("healthy_lifestyle", run.told.recommendations)

\* C22 as stated: generate_explanation appends the generic monitoring
\* recommendations exactly when none of the four rules fired (jitter,
\* pitch stability, baseline drift, lexical coherence).
C22_GenericWhenNoRuleFired ==
    Explained =>
        \A i \in 1..Len(scoring.out) :
            LET run == scoring.out[i]
                fired == JitterRule \/ StabilityRule \/ DriftRule
                         \/ CoherenceRule(run)
            IN  IF fired THEN NoGeneric(run) ELSE HasGeneric(run)

\* C22 (amended): generate_explanation appends the generic monitoring
\* recommendations exactly when none of the three rules that carry a
\* recommendation fired (jitter, baseline drift, lexical coherence); the
\* pitch stability rule adds a sentence and no recommendation, so the
\* generic ones follow it when it fires alone.
C22_GenericWhenNoRecommendingRuleFired ==
    Explained =>
        \A i \in 1..Len(scoring.out) :
            LET run == scoring.out[i]
                fired == JitterRule \/ DriftRule \/ CoherenceRule(run)
            IN  /\ IF fired THEN NoGeneric(run) ELSE HasGeneric(run)
                /\ StabilityRule =
                      InSeq("stability", run.told.explanation.clauses)

\* the pitch stability rule fired alone and the generic recommendations
\* were appended
C22_Witness ==
    /\ Explained
    /\ StabilityRule /\ ~JitterRule /\ ~DriftRule
    /\ ~CoherenceRule(scoring.out[1])
    /\ InSeq("stability", scoring.out[1].told.explanation.clauses)
    /\ scoring.out[1].told.recommendations = GenericRecommendations

\* C24 as stated: two runs with the same feature record, baseline
\* comparison, verdict and lexical outcome give the same narrative and the
\* same ordered recommendation list.
C24_SameInputsSameExplanation ==
    (scoring.fn = "generate_explanation" /\ Len(scoring.out) >= 2) =>
        /\ scoring.out[1].explanation = scoring.out[2].explanation
        /\ scoring.out[1].recommendations = scoring.out[2].recommendations

=============================================================================
